---- MODULE Spec2Model ----
(***************************************************************************)
(* A model of the TRM Python SDK:                                          *)
(*   - TRMClient._request  (sdk/python/trm_sdk/client.py): the retry loop  *)
(*   - WebhookHandler      (sdk/python/trm_sdk/webhooks.py): registration, *)
(*     signature verification and dispatch.                                *)
(* The two components share no state; SpecClient runs the first and        *)
(* SpecWebhook the second.                                                 *)
(***************************************************************************)
EXTENDS Integers, Sequences, FiniteSets, TLC

VARIABLES
    self,       \* TRMClient configuration: max_retries, retry_delay
    lib,        \* the installed requests library: is json()'s error a RequestException
    call,       \* the locals and the observable effects of one _request call
    wh,         \* WebhookHandler instance: secret, handlers
    lastOn,     \* history: per event name, the handler of the most recent on() call,
                \* and the event name of the latest on() call that replaced a handler
    disp,       \* the handle / handle_raw call being answered: input, calls made, outcome
    ver,        \* the verify_signature call being answered: input and outcome
    inflight    \* the _request calls in flight on one client, each with its own locals

vars == <<self, lib, call, wh, lastOn, disp, ver, inflight>>

\* ------------------------------------------------------------------ bounds

\* largest max_retries a client is constructed with
MaxMaxRetries == 3
\* largest retry_delay (in whole seconds) a client is constructed with
MaxRetryDelay == 2

\* ------------------------------------------------------------------ values

\* Python's None
NoneV == [t |-> "None"]

\* JSON values as Python objects: a dict is a function from its keys
JStr(s) == [t |-> "str", v |-> s]
JDict(f) == [t |-> "dict", v |-> f]
JList == [t |-> "list", v |-> "[1]"]
JNull == [t |-> "NoneType", v |-> "null"]
EmptyDict == JDict([k \in {} |-> NoneV])

IsDict(j) == j.t = "dict"

\* dict.get(key, default)
Get(d, key, default) == IF key \in DOMAIN d.v THEN d.v[key] ELSE default

\* the nested error objects a response body may carry
ErrFull == JDict([k \in {"message", "code", "type"} |->
                    CASE k = "message" -> JStr("Job not found")
                      [] k = "code" -> JStr("not_found")
                      [] k = "type" -> JStr("invalid_request")])
ErrPartial == JDict([k \in {"message"} |-> JStr("Job not found")])

\* the parsed bodies the model draws from
JsonBodies ==
    { JDict([k \in {"error"} |-> ErrFull]),
      JDict([k \in {"error"} |-> ErrPartial]),
      JDict([k \in {"data"} |-> JStr("x")]),
      JDict([k \in {"error"} |-> JStr("oops")]),
      JDict([k \in {"error"} |-> JNull]),
      JList }

\* response.content: empty, the text of a JSON value, or text that is no JSON
Contents ==
    {[t |-> "empty"], [t |-> "garbage"]} \cup {[t |-> "json", v |-> j] : j \in JsonBodies}

\* HTTP status codes the server answers with
Statuses == {200, 204, 304, 400, 499, 500, 599, 600}

\* what session.request does on one attempt
Responses == {[t |-> "response", status_code |-> s, content |-> c] : s \in Statuses, c \in Contents}
TransportFailures == {[t |-> "ConnectionError"], [t |-> "Timeout"]}
Outcomes == Responses \cup TransportFailures

IsResponse(o) == o.t = "response"

\* requests.Response.ok: raise_for_status raises for 400 <= status < 600 only
Ok(status) == ~(400 <= status /\ status < 600)

\* line 67: the client-error test
IsClientError(status) == 400 <= status /\ status < 500

\* TRMError(message, code, error_type, status_code, response)
TRMError(message, code, error_type, status_code, response) ==
    [t |-> "TRMError", message |-> message, code |-> code, error_type |-> error_type,
     status_code |-> status_code, response |-> response]

\* line 80-82: the generic error
MaxRetriesError ==
    TRMError(JStr("Max retries exceeded"), JStr("max_retries"), JStr("request_error"), 0, EmptyDict)

\* ------------------------------------------------------------ TRMClient

\* exceptions other than TRMError
JSONDecodeError == [t |-> "JSONDecodeError"]
AttributeError == [t |-> "AttributeError"]

Value(v) == [k |-> "value", v |-> v]
Raised(e) == [k |-> "raise", v |-> e]

\* mutant: response.json() is called on an empty body too
ResponseData_AlwaysJson(content) ==
    CASE content.t = "json" -> Value(content.v)
      [] OTHER -> Raised(JSONDecodeError)

\* line 55: response.json() if response.content else {}
ResponseData(content) ==
    CASE content.t = "empty" -> Value(EmptyDict)
      [] content.t = "json" -> Value(content.v)
      [] content.t = "garbage" -> Raised(JSONDecodeError)

\* x.get(key, default) on an object that may not be a dict
PyGet(x, key, default) ==
    IF IsDict(x) THEN Value(Get(x, key, default)) ELSE Raised(AttributeError)

\* response_data.get('error', {}).get(field, default)
ErrorField(response_data, field, default) ==
    LET err == PyGet(response_data, "error", EmptyDict)
    IN  IF err.k = "raise" THEN err ELSE PyGet(err.v, field, default)

\* lines 58-64: the TRMError built from a response that is not ok
BuildError(response_data, status_code) ==
    LET message == ErrorField(response_data, "message", JStr("API Error"))
        code == ErrorField(response_data, "code", JStr("unknown_error"))
        error_type == ErrorField(response_data, "type", JStr("api_error"))
    IN  IF message.k = "raise" THEN message
        ELSE IF code.k = "raise" THEN code
        ELSE IF error_type.k = "raise" THEN error_type
        ELSE Value(TRMError(message.v, code.v, error_type.v, status_code, response_data))

\* line 73: is the exception response.json() raises caught as a RequestException
\* (requests >= 2.27 raises requests.exceptions.JSONDecodeError, older ones a ValueError)
CaughtByExcept(e) == e \in TransportFailures \/ (e = JSONDecodeError /\ lib)

Continue(last_error) == [k |-> "continue", v |-> NoneV, last_error |-> last_error]
Return(v, last_error) == [k |-> "return", v |-> v, last_error |-> last_error]
Raise(e, last_error) == [k |-> "raise", v |-> e, last_error |-> last_error]

\* lines 57-71: the branch on a response whose body was read
OnResponse(status_code, response_data, last_error) ==
    IF ~Ok(status_code)
    THEN LET error == BuildError(response_data, status_code)
         IN  IF error.k = "raise" THEN Raise(error.v, last_error)
             ELSE IF IsClientError(status_code) THEN Raise(error.v, last_error)
             ELSE Continue(error.v)
    ELSE Return(response_data, last_error)

\* lines 46-74: one pass through the try block with what session.request did
TryBlock(o, last_error) ==
    IF ~IsResponse(o)
    THEN Continue(o)
    ELSE LET response_data == ResponseData(o.content)
         IN  IF response_data.k = "raise"
             THEN IF CaughtByExcept(response_data.v)
                  THEN Continue(response_data.v)
                  ELSE Raise(response_data.v, last_error)
             ELSE OnResponse(o.status_code, response_data.v, last_error)

\* line 77: is there a wait after this attempt
ShouldSleep(attempt) == attempt < self.max_retries - 1

\* line 78: the delay after this attempt
Backoff(attempt) == self.retry_delay * (2 ^ attempt)

\* lines 80-82: what the call raises when the loop is over
Exhausted(last_error) == IF last_error # NoneV THEN last_error ELSE MaxRetriesError

\* how the model files an attempt's outcome (history of the call)
Class(o) ==
    CASE ~IsResponse(o) -> "transport"
      [] IsResponse(o) /\ 500 <= o.status_code /\ o.status_code < 600 -> "5xx"
      [] IsResponse(o) /\ IsClientError(o.status_code) -> "4xx"
      [] IsResponse(o) /\ 200 <= o.status_code /\ o.status_code < 300 -> "2xx"
      [] OTHER -> "other"

\* lines 42-43: the locals of a fresh call
NewCall ==
    [pc |-> "idle", attempt |-> 0, last_error |-> NoneV, sent |-> 0, delays |-> <<>>,
     resp |-> NoneV, seen |-> {}, out |-> NoneV]

\* lines 39-45: the locals once _request is entered; range(max_retries) may be empty
Entered ==
    IF self.max_retries <= 0
    THEN [NewCall EXCEPT !.pc = "done", !.out = Raised(Exhausted(NoneV))]
    ELSE [NewCall EXCEPT !.pc = "attempt"]

\* lines 46-77 (and 80 after the last attempt): the locals of call c after an
\* attempt on which session.request did o
Attempted(c, o) ==
    LET r == TryBlock(o, c.last_error)
        base == [c EXCEPT !.sent = @ + 1, !.resp = o,
                          !.seen = @ \cup {Class(o)},
                          !.last_error = r.last_error]
    IN  CASE r.k = "return" ->
                 [base EXCEPT !.pc = "done", !.out = Value(r.v)]
          [] r.k = "raise" ->
                 [base EXCEPT !.pc = "done", !.out = Raised(r.v)]
          [] r.k = "continue" /\ ShouldSleep(c.attempt) ->
                 [base EXCEPT !.pc = "sleep"]
          [] OTHER ->
                 [base EXCEPT !.pc = "done",
                              !.out = Raised(Exhausted(r.last_error))]

\* line 78 and the loop's increment: the locals of call c after the wait
Slept(c) ==
    [c EXCEPT !.delays = Append(@, Backoff(c.attempt)),
              !.attempt = @ + 1, !.pc = "attempt"]

\* lines 39-45: _request is entered
Request ==
    /\ call.pc \in {"idle", "done"}
    /\ call' = Entered
    /\ UNCHANGED <<self, lib, wh, lastOn, disp, ver, inflight>>

\* lines 46-77 (and 80 after the last attempt): one attempt of the loop
Attempt ==
    /\ call.pc = "attempt"
    /\ \E o \in Outcomes : call' = Attempted(call, o)
    /\ UNCHANGED <<self, lib, wh, lastOn, disp, ver, inflight>>

\* line 78 and the loop's increment: time.sleep(retry_delay * 2 ** attempt)
Sleep ==
    /\ call.pc = "sleep"
    /\ call' = Slept(call)
    /\ UNCHANGED <<self, lib, wh, lastOn, disp, ver, inflight>>

\* lines 25-31: the configurations a client is constructed with
Configs == [max_retries : 0..MaxMaxRetries, retry_delay : 0..MaxRetryDelay]

InitClient ==
    /\ self \in Configs
    /\ lib \in BOOLEAN
    /\ call = NewCall
    /\ wh = NoneV
    /\ lastOn = NoneV
    /\ disp = NoneV
    /\ ver = NoneV
    /\ inflight = NoneV

NextClient == Request \/ Attempt \/ Sleep

SpecClient == InitClient /\ [][NextClient]_vars

\* --------------------------------------------------- TRMClient properties

\* the delays slept so far follow retry_delay * 2^i, i = 0, 1, ...
OnSchedule(delays) ==
    \A i \in 1..Len(delays) : delays[i] = self.retry_delay * (2 ^ (i - 1))

LastWasClientError == IsResponse(call.resp) /\ IsClientError(call.resp.status_code)

LastWasSuccess ==
    IsResponse(call.resp) /\ 200 <= call.resp.status_code /\ call.resp.status_code < 300

\* C1: a response with status 400..499 ends the call at once with the ApiError
\* built from that response: no later attempt, no delay after it; a client error
\* on the first attempt means exactly one request was sent.
C1_ClientErrorFailsAtOnce ==
    LastWasClientError =>
        /\ call.pc = "done"
        /\ call.out.k = "raise"
        /\ call.out.v.t = "TRMError"
        /\ call.out.v.status_code = call.resp.status_code
        /\ call.sent = call.attempt + 1
        /\ Len(call.delays) = call.attempt
        /\ (call.attempt = 0 => call.sent = 1)

\* C2: when every attempt got a server-error status (checked on 500..599, the
\* statuses requests itself files as server errors), the call fails after exactly
\* max_retries requests and max_retries - 1 delays, the i-th delay (0-based)
\* being retry_delay * 2^i, with no delay after the final attempt.
C2_ServerErrorsExhaustRetries ==
    (call.pc = "done" /\ call.seen = {"5xx"}) =>
        /\ call.out.k = "raise"
        /\ call.sent = self.max_retries
        /\ Len(call.delays) = self.max_retries - 1
        /\ OnSchedule(call.delays)

\* C3 as stated: the first attempt that receives a 2xx response ends the call
\* and returns its parsed body (the empty object for an empty body); no later
\* attempt is sent and no delay follows it.
C3_SuccessEndsCall ==
    LastWasSuccess =>
        /\ call.pc = "done"
        /\ call.out.k = "value"
        /\ call.out.v = (IF call.resp.content.t = "json" THEN call.resp.content.v
                         ELSE EmptyDict)
        /\ call.sent = call.attempt + 1
        /\ Len(call.delays) = call.attempt

\* C3 amended: the first attempt that receives a 2xx response whose body is
\* empty or is valid JSON ends the call and returns the parsed body (the empty
\* object for an empty body); no later attempt is sent and no delay follows it,
\* however many failed attempts came before.
C3_ParsableSuccessEndsCall ==
    (LastWasSuccess /\ call.resp.content.t # "garbage") =>
        /\ call.pc = "done"
        /\ call.out.k = "value"
        /\ call.out.v = (IF call.resp.content.t = "json" THEN call.resp.content.v
                         ELSE EmptyDict)
        /\ call.sent = call.attempt + 1
        /\ Len(call.delays) = call.attempt
        /\ OnSchedule(call.delays)

\* C3 witness: a call that succeeded with an empty body on its third attempt
C3_Witness ==
    /\ LastWasSuccess
    /\ call.resp.content.t = "empty"
    /\ call.attempt = 2
    /\ call.pc = "done"
    /\ call.out = Value(EmptyDict)

\* the error the final attempt records: the transport failure itself, the
\* failure to read the body, or the TRMError carrying the response's status
RecordedByLast(e) ==
    CASE ~IsResponse(call.resp) -> e = call.resp
      [] IsResponse(call.resp) /\ call.resp.content.t = "garbage" -> e = JSONDecodeError
      [] OTHER -> e.t = "TRMError" /\ e.status_code = call.resp.status_code

\* C4: when every attempt ended in a transport failure or a server error
\* (500..599), exactly max_retries attempts are made on the backoff schedule
\* and the call fails with the error the final attempt recorded.
C4_TransportRetriedLikeServerError ==
    (call.pc = "done" /\ call.seen # {} /\ call.seen \subseteq {"5xx", "transport"}) =>
        /\ call.sent = self.max_retries
        /\ Len(call.delays) = self.max_retries - 1
        /\ OnSchedule(call.delays)
        /\ call.out.k = "raise"
        /\ RecordedByLast(call.out.v)

\* the for loop ran out: no attempt at all, or max_retries attempts of which
\* the final one neither returned nor raised
LoopExhausted ==
    /\ call.pc = "done"
    /\ \/ call.resp = NoneV
       \/ call.sent = self.max_retries /\ TryBlock(call.resp, NoneV).k = "continue"

\* the error built from the client-error response that ended the call
ClientErrorOfLast(e) ==
    /\ LastWasClientError
    /\ e.t = "TRMError"
    /\ e.status_code = call.resp.status_code

\* C14: the generic error ("Max retries exceeded", max_retries, request_error,
\* status 0) is raised exactly when the loop ran out with no error recorded;
\* a finished call in which an attempt met a server error (500..599) or a
\* transport failure and none got a 2xx response fails with an error of its own
\* attempts (the last recorded one, or the ApiError of the client-error
\* response that ended it), never the generic one; and no call sends more than
\* max_retries requests.
C14_GenericErrorOnlyUnrecorded ==
    /\ (call.pc = "done" /\ call.out = Raised(MaxRetriesError))
           <=> (LoopExhausted /\ call.last_error = NoneV)
    /\ (/\ call.pc = "done"
        /\ call.seen \cap {"5xx", "transport"} # {}
        /\ "2xx" \notin call.seen) =>
            /\ call.out.k = "raise"
            /\ call.out.v # MaxRetriesError
            /\ call.out.v = call.last_error \/ ClientErrorOfLast(call.out.v)
    /\ call.sent <= self.max_retries

\* the final attempt is over: the call waits before the next one or has ended
AttemptOver == call.pc \in {"sleep", "done"} /\ IsResponse(call.resp)

\* C16: a body is returned only from an attempt whose status is 2xx; an attempt
\* whose status is neither 2xx nor 400..499 records an ApiError carrying that
\* status and is retried while attempts remain, the call failing with that
\* error when none remain.
C16_OnlySuccessReturns ==
    /\ (call.pc = "done" /\ call.out.k = "value") => LastWasSuccess
    /\ (AttemptOver /\ ~LastWasSuccess /\ ~LastWasClientError) =>
           /\ call.last_error.t = "TRMError"
           /\ call.last_error.status_code = call.resp.status_code
           /\ IF call.attempt < self.max_retries - 1
              THEN call.pc = "sleep"
              ELSE call.pc = "done" /\ call.out = Raised(call.last_error)

\* the value of error.<field> in a response body, or the default when the body
\* is empty, is no JSON object, has no "error" object or the object lacks it
BodyField(content, field, default) ==
    IF /\ content.t = "json"
       /\ IsDict(content.v)
       /\ "error" \in DOMAIN content.v.v
       /\ IsDict(content.v.v["error"])
       /\ field \in DOMAIN content.v.v["error"].v
    THEN content.v.v["error"].v[field]
    ELSE default

\* the error the final attempt raised (client error) or recorded (otherwise)
BuiltError == IF LastWasClientError THEN call.out.v ELSE call.last_error

\* C17: every response with a failure status (checked on 400..599, the statuses
\* for which the code builds an error), whatever its body, yields an ApiError
\* whose message, code and type are the body's values where present and the
\* defaults otherwise, with the response's status; the attempt never fails with
\* another kind of error.
C17_ErrorBuiltFromAnyBody ==
    (AttemptOver /\ ~Ok(call.resp.status_code)) =>
        /\ LastWasClientError => call.out.k = "raise"
        /\ BuiltError.t = "TRMError"
        /\ BuiltError.message = BodyField(call.resp.content, "message", JStr("API Error"))
        /\ BuiltError.code = BodyField(call.resp.content, "code", JStr("unknown_error"))
        /\ BuiltError.error_type = BodyField(call.resp.content, "type", JStr("api_error"))
        /\ BuiltError.status_code = call.resp.status_code
        /\ call.pc = "done" => call.out = Raised(BuiltError)

\* ------------------------------------------------------- WebhookHandler

\* A Python str or bytes value is a sequence of chunks.  A chunk is a piece of
\* text without '=' or '.' in it, the character '=' or '.', or the 64 hex characters of an
\* HMAC-SHA256 digest, which stand for the key and the message they were
\* computed from (HMAC taken as injective).
Ch(c) == [c |-> c, key |-> <<>>, msg |-> <<>>]
Str(c) == <<Ch(c)>>
HexDigest(key, msg) == [c |-> "hex", key |-> key, msg |-> msg]

Eq == Ch("=")
Dot == Ch(".")

\* chunks that are not ASCII text (str) / not valid UTF-8 (bytes)
NonAscii == Ch("<U+00E9>")
BadUtf8 == Ch("<0xFF>")

\* the shared secret of the handler under test, and another party's secret
Secret == Str("whsec_test")
OtherSecret == Str("whsec_other")

\* request bodies
BodyEvent == Str("{\"id\":\"evt_1\"}")
BodyNotJson == Str("{not json")
BodyBinary == <<Ch("{\"id\":\""), BadUtf8, Ch("\"}")>>
BodyNul == Str("a<0x00>bcd")
Bodies == {BodyEvent, BodyNotJson, BodyBinary, BodyNul}

\* payload.decode('utf-8')
Decode(payload) ==
    IF \E i \in 1..Len(payload) : payload[i] = BadUtf8
    THEN Raised([t |-> "UnicodeDecodeError", msg |-> "invalid start byte"])
    ELSE Value(payload)

\* json.loads(body) on bytes: the encoding is guessed from the first bytes (a
\* NUL second byte reads as UTF-16) before the text is parsed
JsonLoads(body) ==
    CASE body = BodyEvent -> Value(JDict([k \in {"id"} |-> JStr("evt_1")]))
      [] body = BodyNul -> Raised([t |-> "UnicodeDecodeError", msg |-> "truncated data"])
      [] OTHER -> Raised([t |-> "JSONDecodeError", msg |-> "Expecting value"])

\* '=' in signature
HasEq(signature) == \E i \in 1..Len(signature) : signature[i] = Eq

\* signature.split('=', 1)[1]
AfterFirstEq(signature) ==
    LET i == CHOOSE j \in 1..Len(signature) :
                 signature[j] = Eq /\ \A k \in 1..(j - 1) : signature[k] # Eq
    IN  SubSeq(signature, i + 1, Len(signature))

\* mutant: the header is compared whole, a version prefix is not cut off
Provided_Whole(signature) == signature

\* lines 35-38
Provided(signature) == IF HasEq(signature) THEN AfterFirstEq(signature) ELSE signature

\* mutant: the digest is taken over the body alone
Expected_NoTimestamp(secret, timestamp, text) == <<HexDigest(secret, text)>>

\* lines 28-32: hmac.new(secret, signed_payload, sha256).hexdigest()
Expected(secret, timestamp, text) == <<HexDigest(secret, timestamp \o <<Dot>> \o text)>>

\* line 40: hmac.compare_digest on str raises TypeError unless both are ASCII
CompareDigest(a, b) ==
    IF \E i \in 1..Len(a) : a[i] = NonAscii
    THEN Raised([t |-> "TypeError", msg |-> "comparing strings with non-ASCII characters"])
    ELSE Value(a = b)

\* except Exception: SystemExit and KeyboardInterrupt are not Exceptions
IsException(e) == e.t # "SystemExit"

\* a lone surrogate, the one character of a str that .encode('utf-8') rejects
Surrogate == Ch("<U+DC80>")

\* lines 29-30: s.encode('utf-8')
Encode(s) ==
    IF \E i \in 1..Len(s) : s[i] = Surrogate
    THEN Raised([t |-> "UnicodeEncodeError", msg |-> "surrogates not allowed"])
    ELSE Value(s)

\* lines 27-40: the body of verify_signature's try block
VerifyTry(secret, payload, signature, timestamp) ==
    LET text == Decode(payload)
    IN  IF text.k = "raise" THEN text
        ELSE LET key == Encode(secret)
                 message == Encode(timestamp \o <<Dot>> \o text.v)
             IN  IF key.k = "raise" THEN key
                 ELSE IF message.k = "raise" THEN message
                 ELSE CompareDigest(Provided(signature),
                                    Expected(key.v, timestamp, text.v))

\* mutant: no except clause, a failure inside the try block propagates
VerifyOutcome_NoExcept(secret, payload, signature, timestamp) ==
    VerifyTry(secret, payload, signature, timestamp)

\* lines 26-42: the try block under `except Exception: return False`
VerifyOutcome(secret, payload, signature, timestamp) ==
    LET r == VerifyTry(secret, payload, signature, timestamp)
    IN  IF r.k = "raise" /\ IsException(r.v) THEN Value(FALSE) ELSE r

\* lines 24-42: verify_signature
VerifySignature(secret, payload, signature, timestamp) ==
    LET r == VerifyOutcome(secret, payload, signature, timestamp)
    IN  r.k = "value" /\ r.v

\* the callables registered as handlers and what they do when called
Handlers == {"on_event", "on_event_v2", "on_event_raises", "on_event_exits"}
CallHandler(h, data) ==
    CASE h = "on_event_raises" -> Raised([t |-> "ValueError", msg |-> "boom"])
      [] h = "on_event_exits" -> Raised([t |-> "SystemExit", msg |-> "bye"])
      [] OTHER -> Value([by |-> h, arg |-> data])

\* the event names in use
EventCreated == Str("job.created")
EventHired == Str("referral.hired")
EventNames == {<<>>, EventCreated, EventHired}

HeaderNames == {"X-TRM-Signature", "X-TRM-Timestamp", "X-TRM-Event"}

\* the name a framework that lower-cases header names hands over
Lower(name) ==
    CASE name = "X-TRM-Signature" -> "x-trm-signature"
      [] name = "X-TRM-Timestamp" -> "x-trm-timestamp"
      [] name = "X-TRM-Event" -> "x-trm-event"
      [] OTHER -> name

PyStr(s) == [t |-> "str", v |-> s]

\* dict.get(name): exact key (lines 80-82)
DictGet(headers, name) ==
    IF name \in DOMAIN headers THEN PyStr(headers[name]) ELSE NoneV

\* flask request.headers.get(name): header names compare case-insensitively (lines 47-49)
RequestHeadersGet(headers, name) ==
    IF \E k \in DOMAIN headers : Lower(k) = Lower(name)
    THEN PyStr(headers[CHOOSE k \in DOMAIN headers : Lower(k) = Lower(name)])
    ELSE NoneV

\* truth value of a header lookup: None and "" are false
Truthy(x) == x.t = "str" /\ x.v # <<>>

\* self.handlers.get(event)
HandlersGet(handlers, event) ==
    IF event \in DOMAIN handlers THEN [t |-> "function", v |-> handlers[event]] ELSE NoneV

\* the calls a dispatch makes, in order
CallVerify == [op |-> "verify_signature", h |-> "", arg |-> NoneV]
CallLoads == [op |-> "json.loads", h |-> "", arg |-> NoneV]
CallHandlerOp(h, data) == [op |-> "handler", h |-> h, arg |-> data]

Outcome(calls, out) == [calls |-> calls, out |-> out]

\* mutant: the answer carries the payload instead of the handler's return value
CallRegistered_ReturnsPayload(handlers, event, data, calls) ==
    LET handler == HandlersGet(handlers, event)
    IN  IF handler.t = "function"
        THEN LET result == CallHandler(handler.v, data)
                 called == Append(calls, CallHandlerOp(handler.v, data))
             IN  IF result.k = "value"
                 THEN Outcome(called, Value([success |-> TRUE, result |-> data]))
                 ELSE IF IsException(result.v)
                 THEN Outcome(called, Value([error |-> result.v.msg]))
                 ELSE Outcome(called, Raised(result.v))
        ELSE Outcome(calls, Value([success |-> TRUE, message |-> "No handler for event"]))

\* mutant: a missing handler is answered as an error
CallRegistered_NoHandlerIsError(handlers, event, data, calls) ==
    LET handler == HandlersGet(handlers, event)
    IN  IF handler.t = "function"
        THEN LET result == CallHandler(handler.v, data)
                 called == Append(calls, CallHandlerOp(handler.v, data))
             IN  IF result.k = "value"
                 THEN Outcome(called, Value([success |-> TRUE, result |-> result.v]))
                 ELSE IF IsException(result.v)
                 THEN Outcome(called, Value([error |-> result.v.msg]))
                 ELSE Outcome(called, Raised(result.v))
        ELSE Outcome(calls, Value([error |-> "No handler for event"]))

\* lines 95-103 (and 68-76): look the handler up and call it
CallRegistered(handlers, event, data, calls) ==
    LET handler == HandlersGet(handlers, event)
    IN  IF handler.t = "function"
        THEN LET result == CallHandler(handler.v, data)
                 called == Append(calls, CallHandlerOp(handler.v, data))
             IN  IF result.k = "value"
                 THEN Outcome(called, Value([success |-> TRUE, result |-> result.v]))
                 ELSE IF IsException(result.v)
                 THEN Outcome(called, Value([error |-> result.v.msg]))
                 ELSE Outcome(called, Raised(result.v))
        ELSE Outcome(calls, Value([success |-> TRUE, message |-> "No handler for event"]))

\* lines 90-93 (and 62-65): parse the body, then dispatch
ParseAndCall(handlers, event, body, calls) ==
    LET data == JsonLoads(body)
        called == Append(calls, CallLoads)
    IN  IF data.k = "raise"
        THEN IF data.v.t = "JSONDecodeError"
             THEN Outcome(called, Value([error |-> "Invalid JSON payload"]))
             ELSE Outcome(called, Raised(data.v))
        ELSE CallRegistered(handlers, event, data.v, called)

\* mutant: the body is parsed before the signature is checked
Checks_ParseFirst(w, signature, timestamp, event, body) ==
    IF ~(Truthy(signature) /\ Truthy(timestamp) /\ Truthy(event))
    THEN Outcome(<<>>, Value([error |-> "Missing required headers"]))
    ELSE IF JsonLoads(body).k = "raise" /\ JsonLoads(body).v.t = "JSONDecodeError"
    THEN Outcome(<<CallLoads>>, Value([error |-> "Invalid JSON payload"]))
    ELSE IF ~VerifySignature(w.secret, body, signature.v, timestamp.v)
    THEN Outcome(<<CallLoads, CallVerify>>, Value([error |-> "Invalid signature"]))
    ELSE ParseAndCall(w.handlers, event.v, body, <<CallVerify>>)

\* mutant: the event header is left out of the presence check
Checks_EventNotRequired(w, signature, timestamp, event, body) ==
    IF ~(Truthy(signature) /\ Truthy(timestamp))
    THEN Outcome(<<>>, Value([error |-> "Missing required headers"]))
    ELSE IF ~VerifySignature(w.secret, body, signature.v, timestamp.v)
    THEN Outcome(<<CallVerify>>, Value([error |-> "Invalid signature"]))
    ELSE ParseAndCall(w.handlers, IF event = NoneV THEN Str("None") ELSE event.v,
                      body, <<CallVerify>>)

\* mutant: the signature is not verified before the body is parsed
Checks_Unverified(w, signature, timestamp, event, body) ==
    IF ~(Truthy(signature) /\ Truthy(timestamp) /\ Truthy(event))
    THEN Outcome(<<>>, Value([error |-> "Missing required headers"]))
    ELSE ParseAndCall(w.handlers, event.v, body, <<CallVerify>>)

\* lines 84-103 (and 51-76): the checks after the three header lookups
Checks(w, signature, timestamp, event, body) ==
    IF ~(Truthy(signature) /\ Truthy(timestamp) /\ Truthy(event))
    THEN Outcome(<<>>, Value([error |-> "Missing required headers"]))
    ELSE IF ~VerifySignature(w.secret, body, signature.v, timestamp.v)
    THEN Outcome(<<CallVerify>>, Value([error |-> "Invalid signature"]))
    ELSE ParseAndCall(w.handlers, event.v, body, <<CallVerify>>)

\* lines 78-103: handle_raw(headers, body)
HandleRawResult(w, headers, body) ==
    Checks(w, DictGet(headers, "X-TRM-Signature"), DictGet(headers, "X-TRM-Timestamp"),
           DictGet(headers, "X-TRM-Event"), body)

\* lines 44-76: handle(request), with request.get_data() the body
HandleResult(w, headers, body) ==
    Checks(w, RequestHeadersGet(headers, "X-TRM-Signature"),
           RequestHeadersGet(headers, "X-TRM-Timestamp"),
           RequestHeadersGet(headers, "X-TRM-Event"), body)

\* lines 15-17: a handler object with no registrations
NoHandlers == [e \in {} |-> ""]
NewWebhookHandler == [secret |-> Secret, handlers |-> NoHandlers]

\* mutant: setdefault, the first registration of a name is kept
Register_FirstWins(handlers, event, handler) ==
    [e \in DOMAIN handlers \cup {event} |->
        IF e \in DOMAIN handlers THEN handlers[e] ELSE handler]

\* line 21: self.handlers[event] = handler
Register(handlers, event, handler) ==
    [e \in DOMAIN handlers \cup {event} |-> IF e = event THEN handler ELSE handlers[e]]

\* what a sender puts in X-TRM-Signature for this timestamp and body
Signatures(timestamp, body) ==
    LET msg == timestamp \o <<Dot>> \o body
    IN  { <<>>,
          <<HexDigest(Secret, msg)>>,
          Str("v1") \o <<Eq, HexDigest(Secret, msg)>>,
          Str("v1") \o <<Eq, HexDigest(OtherSecret, msg)>>,
          <<NonAscii>>,
          Str("v1") \o <<Eq, NonAscii>> }

Timestamps == {<<>>, Str("1700000000")}

\* the headers mapping of a request: the names in `present`, as sent or lower-cased
Headers(present, lower, signature, timestamp, event) ==
    [n \in {IF lower THEN Lower(k) ELSE k : k \in present} |->
        CASE Lower(n) = "x-trm-signature" -> signature
          [] Lower(n) = "x-trm-timestamp" -> timestamp
          [] OTHER -> event]

\* the inbound requests the model draws from
Requests ==
    UNION { UNION { { [headers |-> Headers(present, lower, signature, timestamp, event),
                       body |-> body] :
                      signature \in Signatures(timestamp, body), event \in EventNames,
                      present \in SUBSET HeaderNames, lower \in BOOLEAN }
                    : timestamp \in Timestamps } : body \in Bodies }

\* lines 19-22: on(event, handler)
On ==
    /\ disp = NoneV
    /\ \E event \in EventNames, handler \in Handlers :
          /\ wh' = [wh EXCEPT !.handlers = Register(@, event, handler)]
          /\ lastOn' = [h |-> [e \in DOMAIN lastOn.h \cup {event} |->
                                  IF e = event THEN handler ELSE lastOn.h[e]],
                         replaced |-> IF event \in DOMAIN lastOn.h /\ lastOn.h[event] # handler
                                      THEN PyStr(event) ELSE lastOn.replaced]
    /\ UNCHANGED <<self, lib, call, disp, ver, inflight>>

Dispatch(entry, r, o) ==
    [entry |-> entry, headers |-> r.headers, body |-> r.body, calls |-> o.calls, out |-> o.out]

\* lines 78-103: handle_raw(headers, body) is called and answers
HandleRaw ==
    /\ disp = NoneV
    /\ \E r \in Requests :
          disp' = Dispatch("handle_raw", r, HandleRawResult(wh, r.headers, r.body))
    /\ UNCHANGED <<self, lib, call, wh, lastOn, ver, inflight>>

\* lines 44-76: handle(request) is called and answers
Handle ==
    /\ disp = NoneV
    /\ \E r \in Requests :
          disp' = Dispatch("handle", r, HandleResult(wh, r.headers, r.body))
    /\ UNCHANGED <<self, lib, call, wh, lastOn, ver, inflight>>

\* the caller takes the answer (or the exception) and is ready for the next call
Respond ==
    /\ disp # NoneV
    /\ disp' = NoneV
    /\ UNCHANGED <<self, lib, call, wh, lastOn, ver, inflight>>

InitWebhook ==
    /\ self = [max_retries |-> 3, retry_delay |-> 1]
    /\ lib = TRUE
    /\ call = NewCall
    /\ wh = NewWebhookHandler
    /\ lastOn = [h |-> NoHandlers, replaced |-> NoneV]
    /\ disp = NoneV
    /\ ver = NoneV
    /\ inflight = NoneV

NextWebhook == On \/ HandleRaw \/ Handle \/ Respond

SpecWebhook == InitWebhook /\ [][NextWebhook]_vars

\* ---------------------------------------------- WebhookHandler properties

Dispatched == disp # NoneV

\* the header values the entry point finds in the request
Looked(name) ==
    IF disp.entry = "handle" THEN RequestHeadersGet(disp.headers, name)
    ELSE DictGet(disp.headers, name)
SignatureHeader == Looked("X-TRM-Signature")
TimestampHeader == Looked("X-TRM-Timestamp")
EventHeader == Looked("X-TRM-Event")

\* the three headers are in the request (with whatever value)
AllPresent ==
    SignatureHeader # NoneV /\ TimestampHeader # NoneV /\ EventHeader # NoneV

\* the three headers are in the request and none has the empty value
AllNonEmpty == Truthy(SignatureHeader) /\ Truthy(TimestampHeader) /\ Truthy(EventHeader)

\* the signature header is a valid signature of the timestamp header and the body
SignatureVerifies ==
    VerifySignature(wh.secret, disp.body, SignatureHeader.v, TimestampHeader.v)

BodyParses == JsonLoads(disp.body).k = "value"
BodyIsNotJson == ~BodyParses /\ JsonLoads(disp.body).v.t = "JSONDecodeError"

ErrorResult(message) == Value([error |-> message])
NoHandlerResult == Value([success |-> TRUE, message |-> "No handler for event"])

\* the handler calls of the dispatch
HandlerCalls == SelectSeq(disp.calls, LAMBDA c : c.op = "handler")

\* the calls are made in the order verify_signature, json.loads, handler
InOrder ==
    \E n \in 0..3 :
        /\ Len(disp.calls) = n
        /\ \A i \in 1..n : disp.calls[i].op = <<"verify_signature", "json.loads", "handler">>[i]

\* C5 as stated: the outcome is decided by the first failing check in the order
\* headers presence, signature, JSON parse, handler dispatch; with the three
\* headers present, an invalid signature and a non-JSON body the answer is
\* "Invalid signature"; "Invalid JSON payload" is answered only when the headers
\* are present and the signature verified.
C5_ChecksInOrder ==
    Dispatched =>
        /\ InOrder
        /\ (AllPresent /\ ~SignatureVerifies /\ ~BodyParses) =>
               (disp.out = ErrorResult("Invalid signature") /\ disp.calls = <<CallVerify>>)
        /\ disp.out = ErrorResult("Invalid JSON payload") =>
               (AllPresent /\ SignatureVerifies /\ disp.calls = <<CallVerify, CallLoads>>)

\* C5 amended: the same, for a request whose three headers are present with
\* non-empty values (a header with the empty value fails the presence check).
C5_ChecksInOrderNonEmpty ==
    Dispatched =>
        /\ InOrder
        /\ ~AllNonEmpty =>
               (disp.out = ErrorResult("Missing required headers") /\ disp.calls = <<>>)
        /\ (AllNonEmpty /\ ~SignatureVerifies /\ ~BodyParses) =>
               (disp.out = ErrorResult("Invalid signature") /\ disp.calls = <<CallVerify>>)
        /\ (AllNonEmpty /\ SignatureVerifies /\ BodyIsNotJson) =>
               (disp.out = ErrorResult("Invalid JSON payload")
                   /\ disp.calls = <<CallVerify, CallLoads>>)
        /\ disp.out = ErrorResult("Invalid JSON payload") =>
               (AllNonEmpty /\ SignatureVerifies /\ disp.calls = <<CallVerify, CallLoads>>)

\* C5 witness: all headers set, a signature made with another secret, a body
\* that is no JSON: answered "Invalid signature"
C5_Witness ==
    /\ Dispatched
    /\ AllNonEmpty
    /\ SignatureHeader.v = Str("v1") \o <<Eq, HexDigest(OtherSecret,
                               TimestampHeader.v \o <<Dot>> \o BodyNotJson)>>
    /\ disp.body = BodyNotJson
    /\ disp.out = ErrorResult("Invalid signature")

\* C6: when one of the three headers is missing the answer is "Missing required
\* headers", whatever the body and the other headers, and neither
\* verify_signature nor json.loads nor a handler is called.
C6_MissingHeader ==
    (Dispatched /\ ~AllPresent) =>
        /\ disp.out = ErrorResult("Missing required headers")
        /\ disp.calls = <<>>

\* C6 witness: only the timestamp is missing, the signature is the valid one of
\* the body, and a handler is registered for the event
C6_Witness ==
    /\ Dispatched
    /\ TimestampHeader = NoneV
    /\ Truthy(EventHeader) /\ EventHeader.v \in DOMAIN wh.handlers
    /\ disp.body = BodyEvent
    /\ SignatureHeader = PyStr(<<HexDigest(Secret, Str("1700000000") \o <<Dot>> \o BodyEvent)>>)
    /\ disp.out = ErrorResult("Missing required headers")

\* C7: a dispatch never raises: it always ends by returning a result, and when
\* the registered handler raises the result is {error: <the exception's message>}.
C7_DispatchNeverRaises ==
    Dispatched =>
        /\ disp.out.k = "value"
        /\ \A i \in 1..Len(HandlerCalls) :
              LET r == CallHandler(HandlerCalls[i].h, HandlerCalls[i].arg)
              IN  r.k = "raise" => disp.out = ErrorResult(r.v.msg)

\* the registered handler called once with the parsed body, and its return
\* value wrapped in the answer
HandlerInvokedOnce ==
    LET h == wh.handlers[EventHeader.v]
        data == JsonLoads(disp.body).v
    IN  /\ HandlerCalls = <<CallHandlerOp(h, data)>>
        /\ CallHandler(h, data).k = "value" =>
              disp.out = Value([success |-> TRUE, result |-> [by |-> h, arg |-> data]])

\* C8 as stated: three headers present, signature verifies, body parses, a
\* handler is registered for the event name: that handler is called exactly
\* once with the parsed payload and, if it returns, the answer is
\* {success: true, result: <its return value>}.
C8_HandlerInvoked ==
    (Dispatched /\ AllPresent /\ SignatureVerifies /\ BodyParses
        /\ EventHeader.v \in DOMAIN wh.handlers) => HandlerInvokedOnce

\* C8 amended: the same, when the three headers are present with non-empty values.
C8_HandlerInvokedNonEmpty ==
    (Dispatched /\ AllNonEmpty /\ SignatureVerifies /\ BodyParses
        /\ EventHeader.v \in DOMAIN wh.handlers) => HandlerInvokedOnce

\* C8 witness: a valid job.created request answered with on_event's return value
C8_Witness ==
    /\ Dispatched /\ AllNonEmpty /\ SignatureVerifies
    /\ EventHeader.v = EventCreated
    /\ disp.body = BodyEvent
    /\ disp.out = Value([success |-> TRUE,
                         result |-> [by |-> "on_event", arg |-> JsonLoads(BodyEvent).v]])

\* C9 as stated: three headers present, signature verifies, body parses, no
\* handler registered for the event name: the answer is {success: true,
\* message: "No handler for event"} and no handler is called.
C9_NoHandler ==
    (Dispatched /\ AllPresent /\ SignatureVerifies /\ BodyParses
        /\ EventHeader.v \notin DOMAIN wh.handlers) =>
        (disp.out = NoHandlerResult /\ HandlerCalls = <<>>)

\* C9 amended: the same, when the three headers are present with non-empty values.
C9_NoHandlerNonEmpty ==
    (Dispatched /\ AllNonEmpty /\ SignatureVerifies /\ BodyParses
        /\ EventHeader.v \notin DOMAIN wh.handlers) =>
        (disp.out = NoHandlerResult /\ HandlerCalls = <<>>)

\* C9 witness: handlers are registered for "" and referral.hired, a valid
\* job.created request is answered "No handler for event"
C9_Witness ==
    /\ Dispatched /\ AllNonEmpty /\ SignatureVerifies /\ BodyParses
    /\ EventHeader.v = EventCreated
    /\ DOMAIN wh.handlers = {<<>>, EventHired}
    /\ disp.out = NoHandlerResult

\* C10: the registry holds, per event name, the handler of the most recent
\* on() call for that name (a re-registration replaces it and touches no other
\* name), and a dispatch calls at most one handler: the latest one registered
\* for the request's event name.
C10_LastRegistrationWins ==
    /\ wh.handlers = lastOn.h
    /\ Dispatched =>
          /\ Len(HandlerCalls) <= 1
          /\ \A i \in 1..Len(HandlerCalls) :
                /\ Truthy(EventHeader)
                /\ EventHeader.v \in DOMAIN lastOn.h
                /\ HandlerCalls[i].h = lastOn.h[EventHeader.v]

\* C10 witness: job.created was re-registered (now on_event_v2), referral.hired
\* still has its handler, and a valid job.created dispatch called on_event_v2
C10_Witness ==
    /\ Dispatched
    /\ lastOn.replaced = PyStr(EventCreated)
    /\ wh.handlers = [e \in {EventCreated, EventHired} |->
                         IF e = EventCreated THEN "on_event_v2" ELSE "on_event"]
    /\ EventHeader = PyStr(EventCreated)
    /\ HandlerCalls = <<CallHandlerOp("on_event_v2", JsonLoads(BodyEvent).v)>>

\* C19: a handler is called only inside a dispatch that found the three
\* headers, whose signature verified against the secret and whose body parsed;
\* the one call is to the handler registered at that moment under the
\* request's event name, with the parsed body; and no step that starts or ends
\* a dispatch changes the registry or the secret.
C19_HandlerOnlyAfterChecks ==
    /\ []((Dispatched /\ HandlerCalls # <<>>) =>
            /\ AllPresent
            /\ SignatureVerifies
            /\ BodyParses
            /\ EventHeader.v \in DOMAIN wh.handlers
            /\ wh.handlers = lastOn.h
            /\ HandlerCalls = <<CallHandlerOp(wh.handlers[EventHeader.v],
                                              JsonLoads(disp.body).v)>>)
    /\ [][disp' # disp => wh' = wh]_vars

\* C19 witness: with handlers under both names, a valid referral.hired request
\* given to handle called the handler of referral.hired, which raised
C19_Witness ==
    /\ Dispatched
    /\ disp.entry = "handle"
    /\ DOMAIN wh.handlers = {EventCreated, EventHired}
    /\ wh.handlers[EventCreated] = "on_event"
    /\ EventHeader = PyStr(EventHired)
    /\ HandlerCalls = <<CallHandlerOp("on_event_raises", JsonLoads(BodyEvent).v)>>
    /\ disp.out = ErrorResult("boom")

\* what the other entry point answers to the same headers, body and registry
OtherEntry ==
    IF disp.entry = "handle"
    THEN HandleRawResult(wh, disp.headers, disp.body)
    ELSE HandleResult(wh, disp.headers, disp.body)

\* C20: handle and handle_raw, given the same headers, the same body and the
\* same registry, make the same calls in the same order and give the same
\* answer.
C20_HandleEqualsHandleRaw ==
    Dispatched => (disp.calls = OtherEntry.calls /\ disp.out = OtherEntry.out)

\* --------------------------------------------------- verify_signature alone

\* the secret of the handler: one of the two parties' secrets, or a str that
\* cannot be encoded
VSecrets == {Secret, OtherSecret, <<Surrogate>>}

\* bodies and timestamps given to verify_signature; "1700000000." with body
\* "x" and "1700000000" with body ".x" concatenate to the same message
VPayloads == {BodyEvent, BodyBinary, Str("x"), <<Dot, Ch("x")>>}
VTimestamps == {<<>>, Str("1700000000"), Str("1700000000") \o <<Dot>>, <<Surrogate>>}

\* whoever computed a digest: the key, timestamp and raw body they signed
Signers ==
    [key : {Secret, OtherSecret},
     timestamp : VTimestamps \ {<<Surrogate>>},
     body : VPayloads]

\* the documented construction, on bytes: HMAC-SHA256(key, timestamp + b"." + body)
Sign(g) == <<HexDigest(g.key, g.timestamp \o <<Dot>> \o g.body)>>

\* what a header carries where the digest belongs: a digest some signer
\* computed, or text that is no digest
Tails ==
    [signer : Signers, prefix : {<<>>}]
        \cup [signer : {NoneV}, prefix : {<<>>, Str("deadbeef"), <<NonAscii>>}]
        \cup [signer : {g \in Signers : g.timestamp = Str("1700000000") /\ g.body = BodyEvent},
               prefix : {Str("x") \o <<Eq>>}]

TailText(t) == t.prefix \o (IF t.signer = NoneV THEN <<>> ELSE Sign(t.signer))

\* what precedes it: nothing at all, or a version prefix and '='
Versions == {<<>>, Str("v1"), Str("v2"), <<NonAscii>>}
Heads == {<<>>} \cup {v \o <<Eq>> : v \in Versions}

\* lines 24-42: one call of verify_signature, answered in one step
Verify ==
    /\ ver = NoneV
    /\ \E payload \in VPayloads, timestamp \in VTimestamps, head \in Heads, tail \in Tails :
         LET signature == head \o TailText(tail)
         IN  ver' = [payload |-> payload,
                     timestamp |-> timestamp,
                     signature |-> signature,
                     signer |-> tail.signer,
                     out |-> VerifyOutcome(wh.secret, payload, signature, timestamp)]
    /\ UNCHANGED <<self, lib, call, wh, lastOn, disp, inflight>>

\* the caller takes the answer
VerifyReturn ==
    /\ ver # NoneV
    /\ ver' = NoneV
    /\ UNCHANGED <<self, lib, call, wh, lastOn, disp, inflight>>

InitVerify ==
    /\ self = [max_retries |-> 3, retry_delay |-> 1]
    /\ lib = TRUE
    /\ call = NewCall
    /\ wh \in {[NewWebhookHandler EXCEPT !.secret = k] : k \in VSecrets}
    /\ lastOn = [h |-> NoHandlers, replaced |-> NoneV]
    /\ disp = NoneV
    /\ ver = NoneV
    /\ inflight = NoneV

NextVerify == Verify \/ VerifyReturn

SpecVerify == InitVerify /\ [][NextVerify]_vars

\* ------------------------------------------- verify_signature properties

\* the header is exactly the 64 hex characters of a digest
IsBareDigest(signature) == Len(signature) = 1 /\ signature[1].c = "hex"

\* C11: the bare header h and the header "v1=" + h get the same answer, and a
\* header containing '=' gets the answer of every other header that has the
\* same text after its first '=', whatever stands before it.
C11_VersionPrefixIgnored ==
    ver # NoneV =>
        /\ IsBareDigest(ver.signature) =>
               ver.out = VerifyOutcome(wh.secret, ver.payload,
                                       Str("v1") \o <<Eq>> \o ver.signature, ver.timestamp)
        /\ HasEq(ver.signature) =>
               \A v \in Versions :
                   ver.out = VerifyOutcome(wh.secret, ver.payload,
                                           v \o <<Eq>> \o AfterFirstEq(ver.signature),
                                           ver.timestamp)

\* C11 witness: a "v1=" header carrying the right digest was accepted
C11_Witness ==
    /\ ver # NoneV
    /\ ver.signature = Str("v1") \o <<Eq>> \o Expected(wh.secret, ver.timestamp, ver.payload)
    /\ ver.timestamp = Str("1700000000")
    /\ ver.payload = BodyEvent
    /\ ver.out = Value(TRUE)

\* the provided digest was computed by a signer
Signed == ver # NoneV /\ ver.signer # NoneV /\ IsBareDigest(Provided(ver.signature))

\* the message a signer signed, and the message being verified
SignedMessage == ver.signer.timestamp \o <<Dot>> \o ver.signer.body
VerifiedMessage == ver.timestamp \o <<Dot>> \o ver.payload

\* C12: the answer is true when the provided digest is the HMAC, keyed by the
\* handler's secret, of timestamp + "." + body, and false when the body, the
\* timestamp or the secret the digest was computed from differs from the one
\* being verified.
C12_DigestDecides ==
    Signed =>
        /\ Provided(ver.signature) = <<HexDigest(wh.secret, VerifiedMessage)>> =>
               ver.out = Value(TRUE)
        /\ (\/ ver.signer.body # ver.payload
            \/ ver.signer.timestamp # ver.timestamp
            \/ ver.signer.key # wh.secret) => ver.out = Value(FALSE)

\* C12 as it holds: true needs a body that is valid UTF-8 as well; false
\* follows when the body is not valid UTF-8, and when the secret or the
\* concatenated message timestamp + "." + body differs, which covers a
\* difference in exactly one of body, timestamp and secret.
C12_DigestDecidesUtf8 ==
    Signed =>
        /\ (/\ Provided(ver.signature) = <<HexDigest(wh.secret, VerifiedMessage)>>
            /\ Decode(ver.payload).k = "value") => ver.out = Value(TRUE)
        /\ Decode(ver.payload).k = "raise" => ver.out = Value(FALSE)
        /\ (ver.signer.key # wh.secret \/ SignedMessage # VerifiedMessage) =>
               ver.out = Value(FALSE)
        /\ (/\ ver.signer.body # ver.payload
            /\ ver.signer.timestamp = ver.timestamp) => ver.out = Value(FALSE)
        /\ (/\ ver.signer.timestamp # ver.timestamp
            /\ ver.signer.body = ver.payload) => ver.out = Value(FALSE)

\* C12 witness: a bare digest over another body was refused
C12_Witness ==
    /\ Signed
    /\ IsBareDigest(ver.signature)
    /\ ver.signer.key = wh.secret
    /\ ver.signer.timestamp = ver.timestamp
    /\ ver.signer.body = Str("x")
    /\ ver.payload = BodyEvent
    /\ ver.out = Value(FALSE)

\* a step of the try block fails on this input
VerifyFails ==
    \/ \E i \in 1..Len(ver.payload) : ver.payload[i] = BadUtf8
    \/ \E i \in 1..Len(ver.timestamp) : ver.timestamp[i] = Surrogate
    \/ \E i \in 1..Len(wh.secret) : wh.secret[i] = Surrogate
    \/ \E i \in 1..Len(Provided(ver.signature)) : Provided(ver.signature)[i] = NonAscii

\* C13: verify_signature always returns a bool, and returns False when
\* decoding the body, encoding the key or the message, or comparing the
\* digests fails.
C13_VerifyNeverRaises ==
    ver # NoneV =>
        /\ ver.out.k = "value"
        /\ ver.out.v \in BOOLEAN
        /\ VerifyFails => ver.out = Value(FALSE)

\* C13 witness: a body that is not valid UTF-8, signed as sent, was refused
C13_Witness ==
    /\ Signed
    /\ ver.payload = BodyBinary
    /\ ver.signer = [key |-> wh.secret, timestamp |-> ver.timestamp, body |-> ver.payload]
    /\ ver.out = Value(FALSE)

\* ------------------------------------- concurrent calls on one TRMClient

\* the threads that call _request on the same client
Threads == {1, 2}

\* what session.request does on an attempt of either call
ConcurrentOutcomes ==
    { [t |-> "response", status_code |-> 200, content |-> [t |-> "empty"]],
      [t |-> "response", status_code |-> 400, content |-> [t |-> "empty"]],
      [t |-> "response", status_code |-> 500, content |-> [t |-> "empty"]],
      [t |-> "response", status_code |-> 599,
       content |-> [t |-> "json", v |-> JDict([k \in {"error"} |-> ErrFull])]],
      [t |-> "ConnectionError"] }

\* a frame of _request: its locals, and what its own attempts met so far
Frame(locals, hist) == [loc |-> locals, hist |-> hist]

\* mutant: the last error is kept on the client object, where every call in
\* flight reads and writes it
Store_LastErrorOnClient(frames, t, locals, hist) ==
    [u \in DOMAIN frames |->
        IF u = t THEN Frame(locals, hist)
        ELSE [frames[u] EXCEPT !.loc.last_error = locals.last_error]]

\* lines 43-78: every assignment of _request is to a local of the calling frame
Store(frames, t, locals, hist) == [frames EXCEPT ![t] = Frame(locals, hist)]

\* lines 39-45: thread t enters _request
RequestOf(t) ==
    /\ inflight[t].loc.pc \in {"idle", "done"}
    /\ inflight' = Store(inflight, t, Entered, <<>>)
    /\ UNCHANGED <<self, lib, call, wh, lastOn, disp, ver>>

\* lines 46-77: thread t makes one attempt
AttemptOf(t) ==
    /\ inflight[t].loc.pc = "attempt"
    /\ \E o \in ConcurrentOutcomes :
          inflight' = Store(inflight, t, Attempted(inflight[t].loc, o),
                            Append(inflight[t].hist, o))
    /\ UNCHANGED <<self, lib, call, wh, lastOn, disp, ver>>

\* line 78: thread t has slept
SleepOf(t) ==
    /\ inflight[t].loc.pc = "sleep"
    /\ inflight' = Store(inflight, t, Slept(inflight[t].loc), inflight[t].hist)
    /\ UNCHANGED <<self, lib, call, wh, lastOn, disp, ver>>

\* one client (retry_delay 1) shared by the threads, none of them in a call
InitConcurrent ==
    /\ self \in {c \in Configs : c.retry_delay = 1}
    /\ lib = TRUE
    /\ call = NewCall
    /\ wh = NoneV
    /\ lastOn = NoneV
    /\ disp = NoneV
    /\ ver = NoneV
    /\ inflight = [t \in Threads |-> Frame(NewCall, <<>>)]

NextConcurrent == \E t \in Threads : RequestOf(t) \/ AttemptOf(t) \/ SleepOf(t)

SpecConcurrent == InitConcurrent /\ [][NextConcurrent]_vars

\* ------------------------------------------ concurrent calls: properties

\* the locals of a call that runs alone and meets the outcomes of hist in turn
RECURSIVE Replay(_, _)
Replay(locals, hist) ==
    IF hist = <<>> THEN locals
    ELSE Replay(Attempted(IF locals.pc = "sleep" THEN Slept(locals) ELSE locals,
                          Head(hist)),
                Tail(hist))

Alone(hist) == Replay(Entered, hist)

\* the frame of thread t is where a call running alone would be
AsAlone(t) ==
    LET f == inflight[t]
        a == Alone(f.hist)
    IN  IF f.loc.pc = "idle" THEN f = Frame(NewCall, <<>>)
        ELSE f.loc = a \/ (a.pc = "sleep" /\ f.loc = Slept(a))

\* C18: however the calls of the threads interleave, each call's attempt
\* counter, last recorded error, requests sent, delays waited and result are
\* those of a call running alone that meets the same outcomes on its attempts;
\* and no step of any call changes the client's configuration.
C18_CallsDoNotInterfere ==
    /\ [](\A t \in Threads : AsAlone(t))
    /\ [][self' = self]_vars

\* C18 witness: thread 1 has failed on a connection error after three attempts
\* while thread 2, entered in between, waits after its first server error
C18_Witness ==
    /\ inflight # NoneV
    /\ inflight[1].loc.pc = "done"
    /\ inflight[1].loc.sent = 3
    /\ inflight[1].loc.out = Raised([t |-> "ConnectionError"])
    /\ inflight[2].loc.pc = "sleep"
    /\ inflight[2].loc.sent = 1
    /\ inflight[2].loc.last_error.t = "TRMError"
    /\ inflight[2].loc.last_error.status_code = 599

====
